---------------------------- MODULE Spec2Model ----------------------------
(***************************************************************************)
(* Arya broker authentication: the URL registry (baseurl.py, URLConfig)    *)
(* and the three chained HTTP exchanges of api/auth_api.py                 *)
(* (hostlookup_login, authenticate_broker, get_feed_token).                *)
(*                                                                         *)
(* Strings are sequences of tokens; a token is a delimiter character       *)
(* (":", "/", "?", "#", "[", "]") or a run of other characters.  Python    *)
(* values that may be None or a missing dictionary key are records         *)
(* [k, s] with k in {"absent", "none", "str"}.                             *)
(***************************************************************************)
EXTENDS Integers, Sequences, FiniteSets, TLC

VARIABLES
    HOST_LOOKUP_URL,   \* URLConfig.HOST_LOOKUP_URL
    BASE_URL,          \* URLConfig.BASE_URL
    MARKET_DATA_URL,   \* URLConfig.MARKET_DATA_URL
    INTERACTIVE_URL,   \* URLConfig.INTERACTIVE_URL
    pc,                \* per thread: position in the running call
    op,                \* per thread: the entry point called last
    new_base_url,      \* argument of update_base_url
    hl_response,       \* hostlookup_login: response
    connectionString,  \* authenticate_broker local
    unique_key,        \* authenticate_broker local
    hostlookup_error,  \* authenticate_broker local
    response,          \* authenticate_broker: Stage 2 response
    token,             \* authenticate_broker local
    feed_response,     \* get_feed_token: feed_response
    feed,              \* (feed_token, user_id, feed_error) got at line 79
    parsed,            \* _update_derived_urls local
    reqs,              \* requests issued by the call, in order
    writes,            \* update_base_url invocations made by the call
    base0,             \* registry as it was when the call began
    ret                \* how the call ended: value returned or exception

registry == <<HOST_LOOKUP_URL, BASE_URL, MARKET_DATA_URL, INTERACTIVE_URL>>
locals == <<new_base_url, hl_response, connectionString, unique_key,
            hostlookup_error, response, token, feed_response, feed, parsed>>
vars == <<registry, pc, op, locals, reqs, writes, base0, ret>>

Procs == {"main", "other"}

-----------------------------------------------------------------------------
(* Python values *)

None == [k |-> "none", s |-> <<>>]
Absent == [k |-> "absent", s |-> <<>>]
Str(x) == [k |-> "str", s |-> x]

\* bool(v) of a str-or-None value
Truthy(v) == v.k = "str" /\ v.s # <<>>
\* f"{v}"
Format(v) == IF v.k = "str" THEN v.s ELSE <<"None">>
\* d.get(key)
Get(v) == IF v.k = "absent" THEN None ELSE v
\* d.get(key, default)
GetDefault(v, d) == IF v.k = "absent" THEN d ELSE v

\* how a block of code ends: it returns val, raises exc, or runs on
Return(v) == [k |-> "return", exc |-> "", val |-> v]
Raise(e) == [k |-> "raise", exc |-> e, val |-> <<>>]
Continue == [k |-> "continue", exc |-> "", val |-> <<>>]
NoReturn == [k |-> "none", exc |-> "", val |-> <<>>]

-----------------------------------------------------------------------------
(* urllib.parse.urlparse, as far as scheme and netloc go *)

Delims == {":", "/", "?", "#", "[", "]"}
\* tokens whose first character is not a letter
NonAlpha == {"3000", "2hostlookup"}

Lower(t) == IF t = "HTTP" THEN "http" ELSE t

IndexOf(s, S, from) ==
    IF \E i \in from..Len(s) : s[i] \in S
    THEN CHOOSE i \in from..Len(s) :
            s[i] \in S /\ \A j \in from..(i - 1) : s[j] \notin S
    ELSE 0

Contains(s, t) == \E i \in 1..Len(s) : s[i] = t

urlparse_whole(url) ==
    [ok |-> TRUE, scheme |-> <<Lower(url[1])>>,
     netloc |-> SubSeq(url, 5, Len(url))]

urlparse(url) ==
    LET i == IndexOf(url, {":"}, 1)
        hasScheme == /\ i > 1
                     /\ url[1] \notin NonAlpha
                     /\ \A j \in 1..(i - 1) : url[j] \notin Delims
        scheme == IF hasScheme THEN [j \in 1..(i - 1) |-> Lower(url[j])]
                  ELSE <<>>
        rest == IF hasScheme THEN SubSeq(url, i + 1, Len(url)) ELSE url
        hasNetloc == Len(rest) >= 2 /\ rest[1] = "/" /\ rest[2] = "/"
        j == IndexOf(rest, {"/", "?", "#"}, 3)
        netloc == IF ~hasNetloc THEN <<>>
                  ELSE IF j = 0 THEN SubSeq(rest, 3, Len(rest))
                  ELSE SubSeq(rest, 3, j - 1)
        bad == \/ Contains(netloc, "[") /\ ~Contains(netloc, "]")
               \/ Contains(netloc, "]") /\ ~Contains(netloc, "[")
    IN  [ok |-> ~bad, scheme |-> scheme, netloc |-> netloc]

base_domain_netloc_only(u) == u.netloc

\* f"{parsed.scheme}://{parsed.netloc}"
base_domain(u) == u.scheme \o <<":", "/", "/">> \o u.netloc

\* f"{base_domain}/apimarketdata"
market_data_url(url) == base_domain(urlparse(url)) \o <<"/", "apimarketdata">>

-----------------------------------------------------------------------------
(* The registry's initial values and the connection strings a lookup may   *)
(* hand out.                                                               *)

InitHostLookupUrl ==
    <<"http", ":", "/", "/", "xtstradingnse.aryafingroup.in", ":", "3000",
      "/", "hostlookup">>
InitBaseUrl ==
    <<"http", ":", "/", "/", "xtstradingnse.aryafingroup.in", ":", "3000">>

UrlA == <<"http", ":", "/", "/", "hostA", ":", "3000", "/", "2hostlookup">>
UrlB == <<"HTTP", ":", "/", "/", "hostB", ":", "3000">>
\* unbalanced bracket in the host: urlparse raises ValueError
UrlC == <<"http", ":", "/", "/", "[", "hostC", "/", "x">>

Urls == {UrlA, UrlB, UrlC}


-----------------------------------------------------------------------------
(* HTTP exchanges.  A response is a transport exception (exc) or a status  *)
(* with a body: json says whether the body decodes and to what, result is  *)
(* the kind of body["result"], the other fields are the keys read by the   *)
(* code (Absent when the key is missing).                                  *)

Blank ==
    [exc |-> FALSE, status |-> 200, json |-> "dict", type |-> Absent,
     result |-> "absent", token |-> Absent, userID |-> Absent,
     connectionString |-> Absent, uniqueKey |-> Absent,
     message |-> Absent, description |-> Absent]

Unset == [Blank EXCEPT !.status = 0]

Statuses == {200, 401}
Success == Str(<<"success">>)
Types == {Absent, Success, Str(<<"error">>)}

Undecodable == {[Blank EXCEPT !.status = st, !.json = j] :
                    st \in Statuses, j \in {"invalid", "list"}}
TransportError == [Blank EXCEPT !.exc = TRUE]

HostLookupResponses ==
    {TransportError} \cup Undecodable
    \cup {[Blank EXCEPT !.status = 401]}
    \cup {[Blank EXCEPT !.result = k] : k \in {"absent", "none", "str"}}
    \cup {[Blank EXCEPT !.result = "dict", !.connectionString = c,
                        !.uniqueKey = u] :
            c \in {Absent, Str(<<>>)} \cup {Str(url) : url \in Urls},
            u \in {Absent, Str(<<>>), Str(<<"K1">>)}}

SessionResponses ==
    {TransportError} \cup Undecodable
    \cup {[Blank EXCEPT !.status = 401, !.message = m] :
            m \in {Absent, None, Str(<<"Invalid credentials">>)}}
    \cup {[Blank EXCEPT !.type = t] : t \in Types}
    \cup {[Blank EXCEPT !.type = Success, !.result = k] :
            k \in {"none", "str"}}
    \cup {[Blank EXCEPT !.type = Success, !.result = "dict", !.token = t] :
            t \in {Absent, None, Str(<<"T1">>)}}
    \cup {[Blank EXCEPT !.type = Str(<<"error">>), !.result = "dict",
                        !.token = Str(<<"T1">>)]}

FeedResponses ==
    {TransportError} \cup Undecodable
    \cup {[Blank EXCEPT !.status = 401, !.description = m] :
            m \in {Absent, None, Str(<<"Invalid key">>)}}
    \cup {[Blank EXCEPT !.type = t] : t \in Types}
    \cup {[Blank EXCEPT !.type = Success, !.result = k] :
            k \in {"none", "str"}}
    \cup {[Blank EXCEPT !.type = Success, !.result = "dict", !.token = t,
                        !.userID = u] :
            t \in {Absent, Str(<<"F1">>)}, u \in {Absent, Str(<<"U1">>)}}

\* response.json() and the first .get on it
json(r) ==
    IF r.json = "invalid" THEN Raise("JSONDecodeError")
    ELSE IF r.json = "list" THEN Raise("AttributeError")
    ELSE Continue

TypeIsSuccess_ignored(r) == TRUE

\* result.get("type") == "success"
TypeIsSuccess(r) == Get(r.type) = Success

-----------------------------------------------------------------------------
(* hostlookup_login *)

hostlookup_url_from_base(base, lookup) == base \o <<"/", "hostlookup">>

\* BASE_URL = URLConfig.BASE_URL; HOST_LOOKUP_URL = URLConfig.HOST_LOOKUP_URL;
\* client.post(HOST_LOOKUP_URL, ...)
hostlookup_url(base, lookup) == lookup

HasBoth_either(r) == Truthy(Get(r.connectionString)) \/ Truthy(Get(r.uniqueKey))

\* result.get("connectionString") and result.get("uniqueKey")
HasBoth(r) == Truthy(Get(r.connectionString)) /\ Truthy(Get(r.uniqueKey))

hostlookup_try(r) ==
    IF r.exc THEN Raise("ConnectError")
    ELSE IF r.status = 200 THEN
        IF json(r).k = "raise" THEN json(r)
        ELSE IF r.result # "dict" THEN Raise("AttributeError")
        ELSE IF HasBoth(r)
        THEN Return(<<Get(r.connectionString), Get(r.uniqueKey), None>>)
        ELSE Return(<<None, None,
               Str(<<"Error during hostlookup: Incomplete response data.">>)>>)
    ELSE Continue

hostlookup_except(o) ==
    IF o.k = "raise"
    THEN Return(<<None, None, Str(<<"Error during hostlookup: ", o.exc>>)>>)
    ELSE o

hostlookup_login(r) ==
    LET o == hostlookup_except(hostlookup_try(r))
    IN  IF o.k = "continue"
        THEN Return(<<None, None,
          Str(<<"Error during hostlookup: Unknown error or unexpected response.">>)>>)
        ELSE o

-----------------------------------------------------------------------------
(* get_feed_token *)

feed_url_from_base(base, market) == base \o <<"/", "auth", "/", "login">>

\* f"{URLConfig.MARKET_DATA_URL}/auth/login"
feed_url(base, market) == market \o <<"/", "auth", "/", "login">>

get_feed_token_try(r) ==
    IF r.exc THEN Raise("ConnectError")
    ELSE IF json(r).k = "raise" THEN json(r)
    ELSE IF r.status = 200 THEN
        IF TypeIsSuccess(r) THEN
            IF r.result = "absent" THEN Raise("KeyError")
            ELSE IF r.result # "dict" THEN Raise("AttributeError")
            ELSE Return(<<Get(r.token), Get(r.userID), None>>)
        ELSE Return(<<None, None,
               Str(<<"Feed token request failed. Please check the response.">>)>>)
    ELSE Return(<<None, None,
           Str(<<"API Error (Feed): ">> \o
               Format(GetDefault(r.description,
                   Str(<<"Feed token request failed. Please try again.">>))))>>)

get_feed_token_uncaught(o) == o

get_feed_token_except(o) ==
    IF o.k = "raise"
    THEN Return(<<None, None, Str(<<"An exception occurred: ", o.exc>>)>>)
    ELSE o

get_feed_token(r) == get_feed_token_except(get_feed_token_try(r))

-----------------------------------------------------------------------------
(* authenticate_broker *)

HostlookupFailed_never(err) == FALSE

\* hostlookup_error is not None
HostlookupFailed(err) == err # None

\* f"{connectionString}/user/session"
session_url(c) == Format(c) \o <<"/", "user", "/", "session">>

session_response_update_first(r) ==
    IF r.exc THEN Raise("ConnectError")
    ELSE IF r.json = "invalid" THEN Raise("JSONDecodeError")
    ELSE Continue

\* from the Stage 2 response to the registry update, or out
session_response(r) ==
    IF r.exc THEN Raise("ConnectError")
    ELSE IF r.status = 200 THEN
        IF r.json = "invalid" THEN Raise("JSONDecodeError") ELSE Continue
    ELSE IF json(r).k = "raise" THEN json(r)
    ELSE Return(<<None, None, None,
           Str(<<"API error: ">> \o
               Format(GetDefault(r.message,
                   Str(<<"Authentication failed. Please try again.">>))))>>)

check_type_no_feed(r) ==
    IF json(r).k = "raise" THEN json(r)
    ELSE IF TypeIsSuccess(r) /\ r.result = "dict" /\ r.token # Absent
    THEN Return(<<Get(r.token), None, None, None>>)
    ELSE Return(<<None, None, None, Str(<<"Authentication failed.">>)>>)

check_type_lenient(r) ==
    IF json(r).k = "raise" THEN json(r)
    ELSE IF TypeIsSuccess(r) THEN Continue
    ELSE Return(<<None, None, None,
           Str(<<"Authentication succeeded but no access token was returned. Please check the response.">>)>>)

\* result.get('type') == 'success' and token = result['result']['token']
check_type(r) ==
    IF json(r).k = "raise" THEN json(r)
    ELSE IF TypeIsSuccess(r) THEN
        IF r.result = "absent" THEN Raise("KeyError")
        ELSE IF r.result # "dict" THEN Raise("TypeError")
        ELSE IF r.token = Absent THEN Raise("KeyError")
        ELSE Continue
    ELSE Return(<<None, None, None,
           Str(<<"Authentication succeeded but no access token was returned. Please check the response.">>)>>)

feed_return_drop_token(tok, f) ==
    IF Truthy(f[3])
    THEN Return(<<None, None, None,
                  Str(<<"Feed token error: ">> \o Format(f[3]))>>)
    ELSE Return(<<tok, f[1], f[2], None>>)

\* the two returns after get_feed_token()
feed_return(tok, f) ==
    IF Truthy(f[3])
    THEN Return(<<tok, None, None,
                  Str(<<"Feed token error: ">> \o Format(f[3]))>>)
    ELSE Return(<<tok, f[1], f[2], None>>)

authenticate_except(o) ==
    IF o.k = "raise"
    THEN Return(<<None, None, None,
                  Str(<<"Error during authentication: ", o.exc>>)>>)
    ELSE o

-----------------------------------------------------------------------------
(* State *)

Main == "main"

\* parsed before urlparse has run
NoParse == [ok |-> TRUE, scheme |-> <<>>, netloc |-> <<>>]

Init ==
    /\ HOST_LOOKUP_URL = InitHostLookupUrl
    /\ BASE_URL = InitBaseUrl
    /\ MARKET_DATA_URL = market_data_url(InitBaseUrl)
    /\ INTERACTIVE_URL = InitBaseUrl
    /\ pc = [p \in Procs |-> "idle"]
    /\ op = [p \in Procs |-> "none"]
    /\ new_base_url = [p \in Procs |-> <<>>]
    /\ hl_response = [p \in Procs |-> Unset]
    /\ connectionString = [p \in Procs |-> Absent]
    /\ unique_key = [p \in Procs |-> Absent]
    /\ hostlookup_error = [p \in Procs |-> Absent]
    /\ response = [p \in Procs |-> Unset]
    /\ token = [p \in Procs |-> Absent]
    /\ feed_response = [p \in Procs |-> Unset]
    /\ feed = [p \in Procs |-> <<Absent, Absent, Absent>>]
    /\ parsed = [p \in Procs |-> NoParse]
    /\ reqs = [p \in Procs |-> <<>>]
    /\ writes = [p \in Procs |-> 0]
    /\ base0 = [p \in Procs |-> registry]
    /\ ret = [p \in Procs |-> NoReturn]

\* thread p enters entry point f at position at
Call(p, f, at, n) ==
    /\ pc[p] = "idle"
    /\ pc' = [pc EXCEPT ![p] = at]
    /\ op' = [op EXCEPT ![p] = f]
    /\ new_base_url' = [new_base_url EXCEPT ![p] = n]
    /\ hl_response' = [hl_response EXCEPT ![p] = Unset]
    /\ connectionString' = [connectionString EXCEPT ![p] = Absent]
    /\ unique_key' = [unique_key EXCEPT ![p] = Absent]
    /\ hostlookup_error' = [hostlookup_error EXCEPT ![p] = Absent]
    /\ response' = [response EXCEPT ![p] = Unset]
    /\ token' = [token EXCEPT ![p] = Absent]
    /\ feed_response' = [feed_response EXCEPT ![p] = Unset]
    /\ feed' = [feed EXCEPT ![p] = <<Absent, Absent, Absent>>]
    /\ parsed' = [parsed EXCEPT ![p] = NoParse]
    /\ reqs' = [reqs EXCEPT ![p] = <<>>]
    /\ writes' = [writes EXCEPT ![p] = 0]
    /\ base0' = [base0 EXCEPT ![p] = registry]
    /\ ret' = [ret EXCEPT ![p] = NoReturn]
    /\ UNCHANGED registry

\* thread p leaves its entry point with outcome o
Exit(p, o) ==
    /\ pc' = [pc EXCEPT ![p] = "idle"]
    /\ ret' = [ret EXCEPT ![p] = o]

Goto(p, at) ==
    /\ pc' = [pc EXCEPT ![p] = at]
    /\ UNCHANGED ret

Request(p, stage, url) ==
    reqs' = [reqs EXCEPT ![p] = Append(@, [stage |-> stage, url |-> url])]

-----------------------------------------------------------------------------
(* Entry points *)

CallAuthenticateBroker(p) == Call(p, "authenticate_broker", "hostlookup", <<>>)

CallHostlookupLogin(p) == Call(p, "hostlookup_login", "hostlookup", <<>>)

CallGetFeedToken(p) == Call(p, "get_feed_token", "feed", <<>>)

CallUpdateBaseUrl(p) ==
    \E n \in Urls \cup {InitBaseUrl} :
        Call(p, "update_base_url", "update_base", n)

-----------------------------------------------------------------------------
(* Steps *)

\* Stage 1: hostlookup_login, and in authenticate_broker the test of its
\* error
HostLookup(p) ==
    /\ pc[p] = "hostlookup"
    /\ \E r \in HostLookupResponses :
        LET o == hostlookup_login(r) IN
        /\ Request(p, 1, hostlookup_url(BASE_URL, HOST_LOOKUP_URL))
        /\ hl_response' = [hl_response EXCEPT ![p] = r]
        /\ IF op[p] = "hostlookup_login"
           THEN /\ Exit(p, o)
                /\ UNCHANGED <<connectionString, unique_key, hostlookup_error>>
           ELSE IF o.k = "raise"
           THEN /\ Exit(p, authenticate_except(o))
                /\ UNCHANGED <<connectionString, unique_key, hostlookup_error>>
           ELSE /\ connectionString' = [connectionString EXCEPT ![p] = o.val[1]]
                /\ unique_key' = [unique_key EXCEPT ![p] = o.val[2]]
                /\ hostlookup_error' = [hostlookup_error EXCEPT ![p] = o.val[3]]
                /\ IF HostlookupFailed(o.val[3])
                   THEN Exit(p, Return(<<None, None, None, o.val[3]>>))
                   ELSE Goto(p, "session")
    /\ UNCHANGED <<registry, op, new_base_url, response, token,
                   feed_response, feed, parsed, writes,
                   base0>>

\* Stage 2: the session request and its response, up to the registry update
Session(p) ==
    /\ pc[p] = "session"
    /\ \E r \in SessionResponses :
        LET o == session_response(r) IN
        /\ Request(p, 2, session_url(connectionString[p]))
        /\ response' = [response EXCEPT ![p] = r]
        /\ IF o.k = "continue"
           THEN /\ Goto(p, "update_base")
                /\ new_base_url' =
                      [new_base_url EXCEPT ![p] = connectionString[p].s]
           ELSE /\ Exit(p, authenticate_except(o))
                /\ UNCHANGED new_base_url
    /\ UNCHANGED <<registry, op, hl_response, connectionString, unique_key,
                   hostlookup_error, token, feed_response, feed, parsed,
                   writes, base0>>

\* update_base_url: cls.BASE_URL = new_base_url
UpdateBase(p) ==
    /\ pc[p] = "update_base"
    /\ BASE_URL' = new_base_url[p]
    /\ writes' = [writes EXCEPT ![p] = @ + 1]
    /\ Goto(p, "update_derived")
    /\ UNCHANGED <<HOST_LOOKUP_URL, MARKET_DATA_URL, INTERACTIVE_URL, op,
                   locals, reqs, base0>>

\* _update_derived_urls: parsed = urlparse(cls.BASE_URL), which may raise
UpdateDerived(p) ==
    /\ pc[p] = "update_derived"
    /\ LET u == urlparse(BASE_URL) IN
       IF u.ok
       THEN /\ parsed' = [parsed EXCEPT ![p] = u]
            /\ Goto(p, "write_market")
       ELSE /\ UNCHANGED parsed
            /\ IF op[p] = "update_base_url"
               THEN Exit(p, Raise("ValueError"))
               ELSE Exit(p, authenticate_except(Raise("ValueError")))
    /\ UNCHANGED <<registry, op, new_base_url, hl_response, connectionString,
                   unique_key, hostlookup_error, response, token,
                   feed_response, feed, reqs, writes, base0>>

\* _update_derived_urls: cls.MARKET_DATA_URL = f"{base_domain}/apimarketdata"
WriteMarket(p) ==
    /\ pc[p] = "write_market"
    /\ MARKET_DATA_URL' = base_domain(parsed[p]) \o <<"/", "apimarketdata">>
    /\ Goto(p, "write_interactive")
    /\ UNCHANGED <<HOST_LOOKUP_URL, BASE_URL, INTERACTIVE_URL, op, locals,
                   reqs, writes, base0>>

\* _update_derived_urls: cls.INTERACTIVE_URL = f"{cls.BASE_URL}", and the
\* return to the caller
WriteInteractive(p) ==
    /\ pc[p] = "write_interactive"
    /\ INTERACTIVE_URL' = BASE_URL
    /\ IF op[p] = "update_base_url"
       THEN Exit(p, Return(<<>>))
       ELSE Goto(p, "check_type")
    /\ UNCHANGED <<HOST_LOOKUP_URL, BASE_URL, MARKET_DATA_URL, op, locals,
                   reqs, writes, base0>>

\* authenticate_broker after the registry update: the type test and the token
CheckType(p) ==
    /\ pc[p] = "check_type"
    /\ LET o == check_type(response[p]) IN
       IF o.k = "continue"
       THEN /\ token' = [token EXCEPT ![p] = Get(response[p].token)]
            /\ Goto(p, "feed")
       ELSE /\ Exit(p, authenticate_except(o))
            /\ UNCHANGED token
    /\ UNCHANGED <<registry, op, new_base_url, hl_response, connectionString,
                   unique_key, hostlookup_error, response, feed_response,
                   feed, parsed, reqs, writes, base0>>

\* Stage 3: get_feed_token, and in authenticate_broker the returns after it
Feed(p) ==
    /\ pc[p] = "feed"
    /\ \E r \in FeedResponses :
        LET o == get_feed_token(r) IN
        /\ Request(p, 3, feed_url(BASE_URL, MARKET_DATA_URL))
        /\ feed_response' = [feed_response EXCEPT ![p] = r]
        /\ IF op[p] = "get_feed_token"
           THEN /\ Exit(p, o)
                /\ UNCHANGED feed
           ELSE IF o.k = "raise"
           THEN /\ Exit(p, authenticate_except(o))
                /\ UNCHANGED feed
           ELSE /\ feed' = [feed EXCEPT ![p] = o.val]
                /\ Exit(p, feed_return(token[p], o.val))
    /\ UNCHANGED <<registry, op, new_base_url, hl_response, connectionString,
                   unique_key, hostlookup_error, response, token, parsed,
                   writes, base0>>

-----------------------------------------------------------------------------
(* One thread: the calls run one at a time *)

Next ==
    \/ CallAuthenticateBroker(Main)
    \/ CallHostlookupLogin(Main)
    \/ CallGetFeedToken(Main)
    \/ CallUpdateBaseUrl(Main)
    \/ HostLookup(Main)
    \/ Session(Main)
    \/ UpdateBase(Main)
    \/ UpdateDerived(Main)
    \/ WriteMarket(Main)
    \/ WriteInteractive(Main)
    \/ CheckType(Main)
    \/ Feed(Main)

Spec == Init /\ [][Next]_vars

-----------------------------------------------------------------------------
(* What the properties speak of *)

\* thread p has returned from entry point f
Done(p, f) == pc[p] = "idle" /\ op[p] = f

\* a request of stage a stands before position i of p's requests
IssuedBefore(p, a, i) == \E j \in 1..(i - 1) : reqs[p][j].stage = a

NonEmpty(v) == v.k = "str" /\ v.s # <<>>

\* status 200 with result.connectionString and result.uniqueKey non-empty
LookupWellFormed(r) ==
    /\ ~r.exc /\ r.status = 200 /\ r.json = "dict" /\ r.result = "dict"
    /\ NonEmpty(r.connectionString) /\ NonEmpty(r.uniqueKey)

\* status 200 with type == "success" and result.token
SessionSucceeded(r) ==
    /\ ~r.exc /\ r.status = 200 /\ r.json = "dict" /\ r.type = Success
    /\ r.result = "dict" /\ r.token.k # "absent"

\* status 200 with a body that decodes
SessionDecoded200(r) == ~r.exc /\ r.status = 200 /\ r.json # "invalid"

\* status 200 with type == "success", result.token and result.userID
FeedWellFormed(r) ==
    /\ ~r.exc /\ r.status = 200 /\ r.json = "dict" /\ r.type = Success
    /\ r.result = "dict" /\ NonEmpty(r.token) /\ NonEmpty(r.userID)

AuthLogin == <<"/", "auth", "/", "login">>

-----------------------------------------------------------------------------
\* C1: in authenticate_broker the Stage 2 request is issued only after
\* hostlookup_login returned a null error, the Stage 3 request only after
\* Stage 2 answered 200 with type == "success" and a token; when Stage 1
\* fails the call returns (None, None, None, Stage 1 error) having issued
\* the Stage 1 request alone.
C1_StageGating ==
    \A p \in Procs :
        op[p] = "authenticate_broker" =>
            /\ \A i \in 1..Len(reqs[p]) :
                /\ reqs[p][i].stage = 2 =>
                    /\ IssuedBefore(p, 1, i)
                    /\ LookupWellFormed(hl_response[p])
                    /\ hostlookup_error[p] = None
                /\ reqs[p][i].stage = 3 =>
                    /\ IssuedBefore(p, 2, i)
                    /\ SessionSucceeded(response[p])
            /\ (pc[p] = "idle" /\ ~LookupWellFormed(hl_response[p])) =>
                /\ hostlookup_error[p].k = "str"
                /\ ret[p] = Return(<<None, None, None, hostlookup_error[p]>>)
                /\ Len(reqs[p]) = 1 /\ reqs[p][1].stage = 1

C1_Witness ==
    /\ Done(Main, "authenticate_broker")
    /\ hl_response[Main].exc
    /\ Len(reqs[Main]) = 1
    /\ ret[Main].val[4] = Str(<<"Error during hostlookup: ", "ConnectError">>)

-----------------------------------------------------------------------------
\* Stage 2 answered 200/success with a token and get_feed_token returned an
\* error
C2_Case(p) ==
    /\ Done(p, "authenticate_broker")
    /\ Len(reqs[p]) = 3
    /\ SessionSucceeded(response[p])
    /\ feed[p][3].k = "str"

-----------------------------------------------------------------------------
\* authenticate_broker has returned and its Stage 1 produced a connection
\* string
C3_Case(p) ==
    /\ Done(p, "authenticate_broker")
    /\ LookupWellFormed(hl_response[p])

\* C3 as stated: then BASE_URL is that connection string, whatever Stage 2
\* answered
C3_UpdatedRegardless ==
    \A p \in Procs :
        C3_Case(p) => BASE_URL = hl_response[p].connectionString.s

\* C3 amended: BASE_URL is the connection string when Stage 2 answered 200
\* with a body that decodes; otherwise the registry is as it was before the
\* call
C3_UpdatedOn200 ==
    \A p \in Procs :
        C3_Case(p) =>
            IF SessionDecoded200(response[p])
            THEN BASE_URL = hl_response[p].connectionString.s
            ELSE registry = base0[p]

C3_Witness ==
    /\ C3_Case(Main)
    /\ response[Main].status = 401
    /\ BASE_URL # hl_response[Main].connectionString.s
    /\ BASE_URL = InitBaseUrl

-----------------------------------------------------------------------------
\* C4: whenever no call is running, MARKET_DATA_URL is
\* origin(BASE_URL) + "/apimarketdata" and INTERACTIVE_URL is BASE_URL
C4_RegistryConsistent ==
    (\A p \in Procs : pc[p] = "idle") =>
        /\ MARKET_DATA_URL = market_data_url(BASE_URL)
        /\ INTERACTIVE_URL = BASE_URL

-----------------------------------------------------------------------------
\* C5: after an authenticate_broker call whose Stage 1 returned c and whose
\* Stage 2 succeeded, and after update_base_url(c) for any c, BASE_URL and
\* INTERACTIVE_URL are c and MARKET_DATA_URL is origin(c) + "/apimarketdata";
\* update_base_url raises no error
C5_Rebased ==
    \A p \in Procs :
        /\ (C3_Case(p) /\ SessionSucceeded(response[p])) =>
            /\ BASE_URL = hl_response[p].connectionString.s
            /\ INTERACTIVE_URL = hl_response[p].connectionString.s
            /\ MARKET_DATA_URL =
                  market_data_url(hl_response[p].connectionString.s)
        /\ Done(p, "update_base_url") =>
            /\ ret[p] = Return(<<>>)
            /\ BASE_URL = new_base_url[p]
            /\ INTERACTIVE_URL = new_base_url[p]
            /\ MARKET_DATA_URL = market_data_url(new_base_url[p])

-----------------------------------------------------------------------------
\* C6: hostlookup_login returns (connectionString, uniqueKey, None), both as
\* in the response, exactly when the response has status 200 and both fields
\* non-empty; in every other case it returns (None, None, error) with a
\* non-null error
C6_LookupShape ==
    \A p \in Procs :
        Done(p, "hostlookup_login") =>
            /\ ret[p].k = "return"
            /\ Len(ret[p].val) = 3
            /\ IF LookupWellFormed(hl_response[p])
               THEN ret[p].val = <<hl_response[p].connectionString,
                                   hl_response[p].uniqueKey, None>>
               ELSE /\ ret[p].val[1] = None
                    /\ ret[p].val[2] = None
                    /\ ret[p].val[3].k = "str"

C6_Witness ==
    /\ Done(Main, "hostlookup_login")
    /\ hl_response[Main].status = 200
    /\ hl_response[Main].connectionString = Str(UrlA)
    /\ hl_response[Main].uniqueKey = Absent
    /\ ret[Main].val =
          <<None, None,
            Str(<<"Error during hostlookup: Incomplete response data.">>)>>

-----------------------------------------------------------------------------
\* C7: when authenticate_broker returns a non-null first component, the
\* Stage 3 request was issued in that call, after the Stage 2 request
C7_TokenOnlyAfterFeed ==
    \A p \in Procs :
        (/\ Done(p, "authenticate_broker")
         /\ ret[p].k = "return"
         /\ ret[p].val[1] # None) =>
            \E i \in 1..Len(reqs[p]) :
                /\ reqs[p][i].stage = 3
                /\ IssuedBefore(p, 2, i)

C7_Witness ==
    /\ Done(Main, "authenticate_broker")
    /\ ret[Main].val[1] = Str(<<"T1">>)
    /\ ret[Main].val[4] = None
    /\ Len(reqs[Main]) = 3

-----------------------------------------------------------------------------
\* C8: hostlookup_login, authenticate_broker and get_feed_token always end
\* by returning a tuple whose last component is the error (a string or
\* None); none of them ends by raising
C8_NothingRaised ==
    \A p \in Procs :
        (pc[p] = "idle" /\ op[p] \in {"hostlookup_login",
                                      "authenticate_broker",
                                      "get_feed_token"}) =>
            /\ ret[p].k = "return"
            /\ Len(ret[p].val) =
                  (IF op[p] = "authenticate_broker" THEN 4 ELSE 3)
            /\ ret[p].val[Len(ret[p].val)].k \in {"none", "str"}

C8_Witness ==
    /\ Done(Main, "get_feed_token")
    /\ feed_response[Main].json = "invalid"
    /\ ret[Main] = Return(<<None, None,
                     Str(<<"An exception occurred: ", "JSONDecodeError">>)>>)

-----------------------------------------------------------------------------
\* C9: get_feed_token called on its own issues one request, the Stage 3
\* POST to MARKET_DATA_URL + "/auth/login", leaves the registry as it was,
\* and on a 200/success response with result.token and result.userID
\* returns (token, userID, None)
C9_FeedAlone ==
    \A p \in Procs :
        op[p] = "get_feed_token" =>
            /\ registry = base0[p]
            /\ Len(reqs[p]) <= 1
            /\ pc[p] = "idle" =>
                /\ reqs[p] = <<[stage |-> 3,
                                url |-> base0[p][3] \o AuthLogin]>>
                /\ FeedWellFormed(feed_response[p]) =>
                      ret[p] = Return(<<feed_response[p].token,
                                        feed_response[p].userID, None>>)

C9_Witness ==
    /\ Done(Main, "get_feed_token")
    /\ BASE_URL = UrlA
    /\ reqs[Main][1].url =
          <<"http", ":", "/", "/", "hostA", ":", "3000", "/",
            "apimarketdata", "/", "auth", "/", "login">>
    /\ ret[Main] = Return(<<Str(<<"F1">>), Str(<<"U1">>), None>>)

-----------------------------------------------------------------------------
\* C10: an authenticate_broker call invokes update_base_url at most once,
\* and once when it ends in full success; when Stage 1 fails the registry is
\* left as it was; hostlookup_login and get_feed_token never write it
C10_RegistryWrites ==
    \A p \in Procs :
        /\ op[p] = "authenticate_broker" =>
            /\ writes[p] <= 1
            /\ (pc[p] = "idle" /\ ret[p].k = "return"
                    /\ ret[p].val[4] = None) => writes[p] = 1
            /\ (pc[p] = "idle" /\ ~LookupWellFormed(hl_response[p])) =>
                    (writes[p] = 0 /\ registry = base0[p])
        /\ op[p] \in {"hostlookup_login", "get_feed_token"} =>
            (writes[p] = 0 /\ registry = base0[p])

C10_Witness ==
    /\ Done(Main, "authenticate_broker")
    /\ ret[Main].val[4] = None
    /\ writes[Main] = 1
    /\ base0[Main][2] = UrlA
    /\ BASE_URL = UrlB

-----------------------------------------------------------------------------
\* C11: within one call the requests are issued in stage order, each stage
\* at most once; after the first failing stage of authenticate_broker no
\* further request is issued; hostlookup_login and get_feed_token issue
\* exactly one request per call
C11_NoRetries ==
    \A p \in Procs :
        /\ \A i, j \in 1..Len(reqs[p]) :
              i < j => reqs[p][i].stage < reqs[p][j].stage
        /\ Done(p, "hostlookup_login") =>
              (Len(reqs[p]) = 1 /\ reqs[p][1].stage = 1)
        /\ Done(p, "get_feed_token") =>
              (Len(reqs[p]) = 1 /\ reqs[p][1].stage = 3)
        /\ Done(p, "authenticate_broker") =>
              /\ Len(reqs[p]) >= 1 /\ reqs[p][1].stage = 1
              /\ ~LookupWellFormed(hl_response[p]) => Len(reqs[p]) = 1
              /\ (LookupWellFormed(hl_response[p])
                    /\ ~SessionSucceeded(response[p])) => Len(reqs[p]) = 2

C11_Witness ==
    /\ Done(Main, "authenticate_broker")
    /\ LookupWellFormed(hl_response[Main])
    /\ response[Main].status = 401
    /\ Len(reqs[Main]) = 2
    /\ ret[Main].val[4] = Str(<<"API error: ", "Invalid credentials">>)

-----------------------------------------------------------------------------
\* C12: authenticate_broker obtains a session token only from a Stage 2
\* response with status 200, type == "success" and result.token; a 200
\* response with another type returns (None, None, None, the fixed 'no
\* access token' message) without Stage 3; a 200/success response without
\* result.token returns (None, None, None, error) without Stage 3; a non-200
\* response returns (None, None, None, "API error: " + the body's message,
\* or the default text when the body has none)
C12_SessionOutcome ==
    \A p \in Procs :
        (C3_Case(p) /\ ~response[p].exc /\ response[p].json = "dict") =>
            LET r == response[p] IN
            /\ (token[p] # Absent \/ ret[p].val[1] # None) =>
                  SessionSucceeded(r)
            /\ (r.status = 200 /\ Get(r.type) # Success) =>
                  /\ ret[p] = Return(<<None, None, None,
                        Str(<<"Authentication succeeded but no access token was returned. Please check the response.">>)>>)
                  /\ Len(reqs[p]) = 2
            /\ (r.status = 200 /\ Get(r.type) = Success
                    /\ ~SessionSucceeded(r)) =>
                  /\ ret[p].k = "return"
                  /\ SubSeq(ret[p].val, 1, 3) = <<None, None, None>>
                  /\ ret[p].val[4].k = "str"
                  /\ Len(reqs[p]) = 2
            /\ r.status # 200 =>
                  ret[p] = Return(<<None, None, None,
                      Str(<<"API error: ">> \o
                          (IF r.message.k = "absent"
                           THEN <<"Authentication failed. Please try again.">>
                           ELSE Format(r.message)))>>)

-----------------------------------------------------------------------------
\* C13: get_feed_token returns either (feedToken, userId, None) with a
\* non-null feedToken or (None, None, error) with a non-null error;
\* authenticate_broker returns a null error only with non-null sessionToken,
\* feedToken and userId
C13_FeedShape ==
    \A p \in Procs :
        /\ Done(p, "get_feed_token") =>
            /\ ret[p].k = "return"
            /\ \/ ret[p].val[1] # None /\ ret[p].val[3] = None
               \/ /\ ret[p].val[1] = None /\ ret[p].val[2] = None
                  /\ ret[p].val[3].k = "str"
        /\ (Done(p, "authenticate_broker") /\ ret[p].k = "return"
                /\ ret[p].val[4] = None) =>
            /\ ret[p].val[1] # None
            /\ ret[p].val[2] # None
            /\ ret[p].val[3] # None

-----------------------------------------------------------------------------
\* scheme and host:port of a URL of the form scheme://host:port/path
Origin(u) ==
    LET j == IndexOf(u, {"/"}, 5)
    IN  <<Lower(u[1])>> \o SubSeq(u, 2, IF j = 0 THEN Len(u) ELSE j - 1)

\* C14: in an authenticate_broker call whose Stage 1 returned connection
\* string c, the Stage 3 request goes to
\* origin(c) + "/apimarketdata/auth/login", whatever BASE_URL was before
C14_FeedTargetsOwnHost ==
    \A p \in Procs :
        op[p] = "authenticate_broker" =>
            \A i \in 1..Len(reqs[p]) :
                reqs[p][i].stage = 3 =>
                    reqs[p][i].url =
                        Origin(hl_response[p].connectionString.s)
                            \o <<"/", "apimarketdata">> \o AuthLogin

C14_Witness ==
    /\ Done(Main, "authenticate_broker")
    /\ base0[Main][2] = UrlB
    /\ hl_response[Main].connectionString = Str(UrlA)
    /\ Len(reqs[Main]) = 3
    /\ reqs[Main][3].url =
          <<"http", ":", "/", "/", "hostA", ":", "3000", "/",
            "apimarketdata", "/", "auth", "/", "login">>

-----------------------------------------------------------------------------
\* C15: HOST_LOOKUP_URL keeps its initial value, and every Stage 1 request
\* goes to that URL, whatever BASE_URL is
C15_HostLookupUrlConstant ==
    /\ HOST_LOOKUP_URL = InitHostLookupUrl
    /\ \A p \in Procs :
        \A i \in 1..Len(reqs[p]) :
            reqs[p][i].stage = 1 => reqs[p][i].url = InitHostLookupUrl

C15_Witness ==
    /\ op[Main] = "authenticate_broker"
    /\ base0[Main][2] = UrlA
    /\ Len(reqs[Main]) >= 1
    /\ reqs[Main][1].stage = 1
    /\ reqs[Main][1].url = InitHostLookupUrl

-----------------------------------------------------------------------------
(* Two threads, each making one authenticate_broker attempt, their steps   *)
(* interleaved: URLConfig has no lock.                                     *)

Attempt(p) == op[p] = "none" /\ CallAuthenticateBroker(p)

NextConc ==
    \/ \E p \in Procs : Attempt(p)
    \/ \E p \in Procs : HostLookup(p)
    \/ \E p \in Procs : Session(p)
    \/ \E p \in Procs : UpdateBase(p)
    \/ \E p \in Procs : UpdateDerived(p)
    \/ \E p \in Procs : WriteMarket(p)
    \/ \E p \in Procs : WriteInteractive(p)
    \/ \E p \in Procs : CheckType(p)
    \/ \E p \in Procs : Feed(p)

SpecConc == Init /\ [][NextConc]_vars

-----------------------------------------------------------------------------
\* origins of the connection strings the attempts received
AttemptOrigins ==
    {Origin(hl_response[q].connectionString.s) :
        q \in {r \in Procs : LookupWellFormed(hl_response[r])}}

MarketData == <<"/", "apimarketdata">>

\* C16: with two concurrent authenticate_broker attempts the registry
\* writes interleave, so that MARKET_DATA_URL may differ from
\* origin(BASE_URL) + "/apimarketdata" and an attempt's Stage 3 request may
\* go to the URL derived from the other attempt's connection string (the
\* witness); what stays true is that MARKET_DATA_URL is derived from the
\* initial BASE_URL or from one of the attempts' connection strings, and
\* every Stage 3 request goes to the URL derived from one of the attempts'
\* connection strings
C16_RacingRegistry ==
    /\ MARKET_DATA_URL \in
          {Origin(InitBaseUrl) \o MarketData}
              \cup {o \o MarketData : o \in AttemptOrigins}
    /\ \A p \in Procs :
        \A i \in 1..Len(reqs[p]) :
            reqs[p][i].stage = 3 =>
                reqs[p][i].url \in
                    {o \o MarketData \o AuthLogin : o \in AttemptOrigins}

\* attempt "main" got UrlA, attempt "other" got UrlB; main's Stage 3 request
\* went to the URL derived from UrlB, and the registry is inconsistent
C16_Witness ==
    /\ Done("main", "authenticate_broker")
    /\ hl_response["main"].connectionString = Str(UrlA)
    /\ hl_response["other"].connectionString = Str(UrlB)
    /\ LookupWellFormed(hl_response["main"])
    /\ LookupWellFormed(hl_response["other"])
    /\ Len(reqs["main"]) = 3
    /\ reqs["main"][3].url = Origin(UrlB) \o MarketData \o AuthLogin
    /\ Origin(UrlB) # Origin(UrlA)
    /\ BASE_URL = UrlA
    /\ MARKET_DATA_URL # Origin(BASE_URL) \o MarketData

=============================================================================
